---- MODULE Spec2Model ----
(***************************************************************************)
(* Model of ogov-importer's PopoloStorer (src/lib/PopoloStorer.js): the    *)
(* stage inference of toPopolo, and the publish queue made of store(), the *)
(* async.queue worker and pushToBillit.                                    *)
(***************************************************************************)
EXTENDS Integers, Sequences, FiniteSets, TLC

VARIABLES
  ogovBill,    \* the raw bill handed to toPopolo (classifier run)
  today,       \* the value of `new Date()` during the classifier run
  popolo,      \* outcome of the toPopolo call, NotCalled before it
  options,     \* options.poolSize given to the PopoloStorer constructor
  tasks,       \* q.tasks of the async.queue: store-call numbers, in order
  workers,     \* `workers` counter of the async.queue
  immediates,  \* pending setImmediate(q.process) calls
  ticks,       \* pending process.nextTick callbacks of the worker, in order
  stores,      \* number of store() calls made so far
  item,        \* per store() call: its bill uid, position and history
  pageCount,   \* BillImporter: last queued page
  lastError,   \* BillImporter: the error kept by execute()
  calls,       \* BillImporter: what each enqueueTask() call returned, in order
  page         \* BillImporter: per page number, the progress of its execute()

vars ==
  <<ogovBill, today, popolo, options, tasks, workers, immediates, ticks, stores, item,
    pageCount, lastError, calls, page>>

classifierVars == <<ogovBill, today, popolo>>
queueVars == <<options, tasks, workers, immediates, ticks, stores, item>>
importerVars == <<pageCount, lastError, calls, page>>

-----------------------------------------------------------------------------
(* Bounds of the model.                                                    *)

MaxProcedures == 2
MaxDictums == 1
MaxStores == 2
MaxPoolSize == 2
MaxCalls == 3        \* enqueueTask() calls
MaxDocuments == 2    \* bills on a page

-----------------------------------------------------------------------------
(* JavaScript values.  Strings are TLA+ strings; the two values that are   *)
(* no string are kept apart from every string the model uses.              *)

Undefined == "<undefined>"
Null == "<null>"

\* !v for a value that is a string, undefined or null
Falsy(v) == v \in {Undefined, Null, ""}

\* v.indexOf(...) raises a TypeError when v is undefined or null
NoMethods(v) == v \in {Undefined, Null}

\* String.prototype.indexOf: 0-based position of the first occurrence, or -1
IndexOf(s, p) ==
  LET hits == {i \in 0..(Len(s) - Len(p)) : SubSeq(s, i + 1, i + Len(p)) = p}
  IN  IF hits = {} THEN -1 ELSE CHOOSE i \in hits : \A j \in hits : i <= j

\* String.prototype.substr(start, length) for start >= 0
Substr(s, start, length) ==
  LET last == IF start + length < Len(s) THEN start + length ELSE Len(s)
  IN  SubSeq(s, start + 1, last)

(* Dates: a Date object is its year and 0-based month (getMonth); a date   *)
(* cut out of a topic is a string; a missing date is NoDate.               *)
DateOf(y, m) == [y |-> y, m |-> m]
StrDate(s) == [str |-> s]
NoDate == [none |-> TRUE]

\* !d for a date field
DateFalsy(d) == d = NoDate \/ d = StrDate("")

(* Numbers that may be NaN (the year and month of an invalid Date).        *)
NaN == [nan |-> TRUE, v |-> 0]
Num(n) == [nan |-> FALSE, v |-> n]
NumLt(a, b) == ~a.nan /\ ~b.nan /\ a.v < b.v
NumEq(a, b) == ~a.nan /\ ~b.nan /\ a.v = b.v
NumAdd(a, n) == IF a.nan THEN NaN ELSE Num(a.v + n)

DigitOf(c) ==
  CASE c = "0" -> 0 [] c = "1" -> 1 [] c = "2" -> 2 [] c = "3" -> 3
    [] c = "4" -> 4 [] c = "5" -> 5 [] c = "6" -> 6 [] c = "7" -> 7
    [] c = "8" -> 8 [] c = "9" -> 9 [] OTHER -> -1

RECURSIVE NumberOf(_)
\* value of a run of decimal digits, -1 when some character is no digit
NumberOf(s) ==
  IF s = "" THEN 0
  ELSE LET d == DigitOf(SubSeq(s, Len(s), Len(s)))
           r == NumberOf(SubSeq(s, 1, Len(s) - 1))
       IN  IF d < 0 \/ r < 0 THEN -1 ELSE 10 * r + d

(* new Date(Date.parse(d)): a Date object parses to itself; a string of    *)
(* the form NN/NN/NNNN is read by V8 as month/day/year; anything else is   *)
(* an invalid Date.                                                        *)
ParseDate(d) ==
  IF "y" \in DOMAIN d THEN d
  ELSE IF "str" \in DOMAIN d /\ Len(d.str) = 10
          /\ SubSeq(d.str, 3, 3) = "/" /\ SubSeq(d.str, 6, 6) = "/"
          /\ NumberOf(SubSeq(d.str, 1, 2)) \in 1..12
          /\ NumberOf(SubSeq(d.str, 4, 5)) \in 1..31
          /\ NumberOf(SubSeq(d.str, 7, 10)) >= 0
       THEN DateOf(NumberOf(SubSeq(d.str, 7, 10)), NumberOf(SubSeq(d.str, 1, 2)) - 1)
       ELSE NoDate

\* Date.prototype.getYear: the year minus 1900, NaN for an invalid Date
GetYear(d) == IF "y" \in DOMAIN d THEN Num(d.y - 1900) ELSE NaN

\* Date.prototype.getMonth: 0 for January, NaN for an invalid Date
GetMonth(d) == IF "y" \in DOMAIN d THEN Num(d.m) ELSE NaN

-----------------------------------------------------------------------------
(* toPopolo                                                                *)

STAGE ==
  [ SUBMITTED |-> "Ingresado",
    CONSIDERING |-> "En consideracion",
    DICTUM_ORIGIN |-> "Con dictamen en Camara de Origen",
    HALF_SANCTION |-> "Con media sancion",
    DICTUM_REVISORY |-> "Con dictamen en Camara Revisora",
    APPROVED |-> "Aprobado o sancionado",
    REJECTED |-> "Rechazado",
    PARLIAMENTARY_STATUS_LOST |-> "Perdida de estado parlamentario" ]

\* a property read: undefined when the object has no such property
Prop(obj, name) == IF name \in DOMAIN obj THEN obj[name] ELSE Undefined

\* the dictum as the map callback leaves it (date backfilled)
DictumAfter(bill, dictum) ==
  IF DateFalsy(dictum.date) THEN [dictum EXCEPT !.date = bill.date] ELSE dictum

billitPaperwork(bill, dictum) ==
  [ session |-> dictum.orderPaper,
    date |-> DictumAfter(bill, dictum).date,
    step |-> dictum.result,
    stage |-> "",
    chamber |-> dictum.source,
    bill_id |-> bill.file,
    bill_uid |-> bill.file,
    timeline_status |-> "Indicaciones" ]

\* the map callback of a procedure raises a TypeError: topic.indexOf on no string
ProcedureThrows(procedure) == DateFalsy(procedure.date) /\ NoMethods(procedure.topic)

\* the procedure as the map callback leaves it (date and topic filled in)
ProcedureAfter(bill, procedure) ==
  LET at == IndexOf(procedure.topic, "COMUNICADO EL")
      date == IF ~DateFalsy(procedure.date) THEN procedure.date
              ELSE IF at # 0 THEN StrDate(Substr(procedure.topic, at + 14, 10))
              ELSE bill.date
      topic == IF Falsy(procedure.topic) /\ procedure.source = "Senado"
               THEN "Votacion" ELSE procedure.topic
  IN  [procedure EXCEPT !.date = date, !.topic = topic]

billitDirective(bill, procedure) ==
  LET after == ProcedureAfter(bill, procedure)
  IN  [ date |-> after.date,
        step |-> after.topic,
        stage |-> procedure.result,
        link |-> "",
        bill_uid |-> bill.file,
        bill_id |-> bill.file,
        source |-> procedure.source ]

\* v === n for a number n, where v is a string, undefined or null
StrictEqualsNumber(v, n) == FALSE

RECURSIVE DictumPass(_, _, _, _)
\* the forEach over billitBill.paperworks, from the i-th paperwork on
DictumPass(paperworks, source, i, stage) ==
  IF i > Len(paperworks) THEN stage
  ELSE DictumPass(paperworks, source, i + 1,
         IF StrictEqualsNumber(paperworks[i].chamber, -1)
         THEN IF paperworks[i].chamber = source
              THEN STAGE.DICTUM_ORIGIN ELSE STAGE.DICTUM_REVISORY
         ELSE stage)

Has(step, text) == IndexOf(step, text) > -1

\* a directive of the origin chamber: stage and project_duration after it
OriginDirective(directive, creation_year, st) ==
  IF Has(directive.step, "CONSIDERACION") \/ Has(directive.step, "ARTICULO 114")
     \/ Has(directive.step, "ARTICULO 204")
  THEN IF directive.stage = "MEDIA SANCION"
       THEN [st EXCEPT !.stage = STAGE.HALF_SANCTION,
                       !.project_duration =
                         IF NumLt(creation_year, GetYear(ParseDate(directive.date)))
                         THEN 3 ELSE @]
       ELSE IF directive.stage \in {"SANCIONADO", "APROBADO"}
       THEN [st EXCEPT !.stage = STAGE.APPROVED]
       ELSE IF directive.stage = "RECHAZADO"
       THEN [st EXCEPT !.stage = STAGE.REJECTED]
       ELSE IF directive.stage = ""
       THEN [st EXCEPT !.stage = STAGE.CONSIDERING]
       ELSE st
  ELSE st

\* the revisory chamber's mapping without the ARCHIVADO line
RevisoryDirectiveNoArchive(directive, st) ==
  IF Has(directive.step, "CONSIDERACION")
  THEN IF directive.stage = "MEDIA SANCION"
       THEN [st EXCEPT !.stage = STAGE.HALF_SANCTION]
       ELSE IF directive.stage \in {"SANCIONADO", "APROBADO"}
       THEN [st EXCEPT !.stage = STAGE.APPROVED]
       ELSE IF directive.stage = "RECHAZADO"
       THEN [st EXCEPT !.stage = STAGE.REJECTED]
       ELSE IF directive.stage = Null
       THEN [st EXCEPT !.stage = STAGE.CONSIDERING]
       ELSE st
  ELSE st

\* a directive of the revisory chamber: stage after it
RevisoryDirective(directive, st) ==
  IF Has(directive.step, "CONSIDERACION")
  THEN IF directive.stage = "MEDIA SANCION"
       THEN [st EXCEPT !.stage = STAGE.HALF_SANCTION]
       ELSE IF directive.stage \in {"SANCIONADO", "APROBADO"}
       THEN [st EXCEPT !.stage = STAGE.APPROVED]
       ELSE IF directive.stage = "RECHAZADO"
       THEN [st EXCEPT !.stage = STAGE.REJECTED]
       ELSE IF directive.stage = "ARCHIVADO"
       THEN [st EXCEPT !.stage = STAGE.APPROVED]
       ELSE IF directive.stage = Null
       THEN [st EXCEPT !.stage = STAGE.CONSIDERING]
       ELSE st
  ELSE st

\* the directive belongs to the origin chamber
IsOrigin(directive, source) == Prop(directive, "chamber") = source

RECURSIVE DirectivePassReversed(_, _, _, _, _)
\* the directive pass walking the directives from the last to the first
DirectivePassReversed(directives, source, creation_year, i, st) ==
  IF i > Len(directives) \/ st.threw THEN st
  ELSE LET directive == directives[Len(directives) + 1 - i]
       IN  DirectivePassReversed(directives, source, creation_year, i + 1,
             IF NoMethods(directive.step) THEN [st EXCEPT !.threw = TRUE]
             ELSE IF IsOrigin(directive, source)
             THEN OriginDirective(directive, creation_year, st)
             ELSE RevisoryDirective(directive, st))

RECURSIVE DirectivePass(_, _, _, _, _)
(* The forEach over billitBill.directives, from the i-th directive on.     *)
(* st.threw: step.indexOf raised a TypeError on a step that is no string.  *)
DirectivePass(directives, source, creation_year, i, st) ==
  IF i > Len(directives) \/ st.threw THEN st
  ELSE DirectivePass(directives, source, creation_year, i + 1,
         IF NoMethods(directives[i].step) THEN [st EXCEPT !.threw = TRUE]
         ELSE IF IsOrigin(directives[i], source)
         THEN OriginDirective(directives[i], creation_year, st)
         ELSE RevisoryDirective(directives[i], st))

\* the law override writing a label that is no value of STAGE
LawOverrideLabel(lawNumber, stage) == IF Falsy(lawNumber) THEN stage ELSE "Aprobado"

\* if (billitBill.lawNumber) stage = APPROVED
LawOverride(lawNumber, stage) == IF Falsy(lawNumber) THEN stage ELSE STAGE.APPROVED

\* creation_year after "if (creation_date.getMonth() < 3) creation_year--"
PeriodYear(creation_date) ==
  IF NumLt(GetMonth(creation_date), Num(3))
  THEN NumAdd(GetYear(creation_date), -1) ELSE GetYear(creation_date)

\* the expiry tests with the second one starting in May
StatusLostAfterApril(creation_year, project_duration, now) ==
  \/ NumLt(NumAdd(creation_year, project_duration), GetYear(now))
  \/ /\ NumEq(NumAdd(creation_year, project_duration), GetYear(now))
     /\ NumLt(Num(3), GetMonth(now))

\* the two expiry tests
StatusLost(creation_year, project_duration, now) ==
  \/ NumLt(NumAdd(creation_year, project_duration), GetYear(now))
  \/ /\ NumEq(NumAdd(creation_year, project_duration), GetYear(now))
     /\ ~NumLt(GetMonth(now), Num(3))

Expiry(creation_year, project_duration, now, stage) ==
  IF StatusLost(creation_year, project_duration, now)
  THEN STAGE.PARLIAMENTARY_STATUS_LOST ELSE stage

\* index of the first procedure whose map callback raises, 0 when none does
FirstThrowing(procedures) ==
  LET bad == {i \in 1..Len(procedures) : ProcedureThrows(procedures[i])}
  IN  IF bad = {} THEN 0 ELSE CHOOSE i \in bad : \A j \in bad : i <= j

(* toPopolo(ogovBill) run when new Date() is `now`: whether it raised, the *)
(* bill it returned, the raw bill as the call left it, and the values its  *)
(* locals creation_year and project_duration have when it returns.         *)
toPopolo(bill, now) ==
  LET paperworks == [i \in 1..Len(bill.dictums) |-> billitPaperwork(bill, bill.dictums[i])]
      dictumsAfter == [i \in 1..Len(bill.dictums) |-> DictumAfter(bill, bill.dictums[i])]
      k == FirstThrowing(bill.procedures)
      mapped == IF k = 0 THEN Len(bill.procedures) ELSE k - 1
      directives == [i \in 1..mapped |-> billitDirective(bill, bill.procedures[i])]
      proceduresAfter ==
        [i \in 1..Len(bill.procedures) |->
           IF i <= mapped THEN ProcedureAfter(bill, bill.procedures[i])
           ELSE bill.procedures[i]]
      raw == [bill EXCEPT !.dictums = dictumsAfter, !.procedures = proceduresAfter]
      creation_date == ParseDate(bill.creationTime)
      creation_year == GetYear(creation_date)
      start == [ stage |-> DictumPass(paperworks, bill.source, 1, STAGE.SUBMITTED),
                 project_duration |-> 2,
                 threw |-> FALSE ]
      st == DirectivePass(directives, bill.source, creation_year, 1, start)
      stage == Expiry(PeriodYear(creation_date), st.project_duration, now,
                      LawOverride(bill.lawNumber, st.stage))
  IN  IF k # 0 \/ st.threw
      THEN [threw |-> TRUE, raw |-> raw]
      ELSE [ threw |-> FALSE,
             raw |-> raw,
             creation_year |-> PeriodYear(creation_date),
             project_duration |-> st.project_duration,
             bill |-> [ uid |-> bill.file,
                        creation_date |-> bill.creationTime,
                        source |-> bill.source,
                        initial_chamber |-> bill.source,
                        paperworks |-> paperworks,
                        directives |-> directives,
                        lawNumber |-> bill.lawNumber,
                        stage |-> stage ] ]

-----------------------------------------------------------------------------
(* Raw bills, as BillImporter builds them (it sets no `date` property on a *)
(* bill, so ogovBill.date is missing).                                     *)

Sources == {"Diputados", "Senado"}

Procedures ==
  [ source : {"Diputados"}, topic : {"CONSIDERACION EN GENERAL"},
    date : {DateOf(2014, 5)},
    result : {"MEDIA SANCION", "RECHAZADO", "ARCHIVADO", "", Null} ]
  \cup
  [ source : {"Diputados"},
    topic : {"ARTICULO 114 DEL REGLAMENTO", "MOCION ARTICULO 204"},
    date : {DateOf(2014, 5)}, result : {"APROBADO"} ]
  \cup
  [ source : Sources, topic : {Undefined},
    date : {NoDate, DateOf(2014, 5)}, result : {""} ]
  \cup
  [ source : {"Diputados"},
    topic : {"COMUNICADO EL 10/09/2013", "PASA AL SENADO COMUNICADO EL 10/09/2013",
             "MOCION SOBRE TABLAS"},
    date : {NoDate}, result : {""} ]

Dictums ==
  { [ source |-> "Diputados", orderPaper |-> "12/2013", date |-> NoDate,
      result |-> "ARTICULO 108" ],
    [ source |-> "Senado", orderPaper |-> "40/2013", date |-> DateOf(2013, 7),
      result |-> "" ],
    [ source |-> "Senado", orderPaper |-> "41/2013", date |-> NoDate,
      result |-> "DICTAMEN DE MAYORIA" ] }

SeqsUpTo(S, n) == UNION {[1..k -> S] : k \in 0..n}

RawBills ==
  [ file : {"0001-D-2013"},
    source : Sources,
    creationTime : {DateOf(2013, 1), DateOf(2013, 2), DateOf(2013, 5)},
    date : {NoDate},
    lawNumber : {Undefined, "27000"},
    dictums : SeqsUpTo(Dictums, MaxDictums),
    procedures : SeqsUpTo(Procedures, MaxProcedures) ]

Todays == {DateOf(2014, 6), DateOf(2015, 2), DateOf(2015, 3)}

NotCalled == [called |-> FALSE]

-----------------------------------------------------------------------------
(* The publish queue.                                                      *)

instance == "http://billit"

\* an options object that sets no poolSize
NoPoolSize == [logger |-> Undefined]

\* options && options.poolSize || 2
POOL_SIZE ==
  IF "poolSize" \in DOMAIN options /\ options.poolSize # 0
  THEN options.poolSize ELSE 2

NoResponse == [none |-> TRUE]
Response(code) == [statusCode |-> code]
Pending == [pending |-> TRUE]

GetResponses == {NoResponse} \cup {Response(c) : c \in {200, 404, 500, 503}}
WriteResponses == {NoResponse} \cup {Response(c) : c \in {302, 500}}

\* the bills handed to store(): two well-formed ones and one whose only
\* procedure has neither topic nor date
StoreData ==
  { [ file |-> f, source |-> "Diputados", creationTime |-> DateOf(2013, 5),
      date |-> NoDate, lawNumber |-> Undefined, dictums |-> <<>>,
      procedures |-> p ] :
    <<f, p>> \in { <<"0001-D-2013", <<>> >>, <<"0002-D-2013", <<>> >>,
                   <<"0003-D-2013", << [ source |-> "Diputados", topic |-> Undefined,
                                         date |-> NoDate, result |-> "" ] >> >> } }

Unused ==
  [ phase |-> "unused", uid |-> "", status |-> Pending, reply |-> Pending,
    requests |-> <<>>, callbacks |-> 0, storeCallbacks |-> 0 ]

\* q.process() admitting one task more than the pool holds
QProcessOffByOne(t, w, it) ==
  IF w <= POOL_SIZE /\ t # <<>>
  THEN [tasks |-> Tail(t), workers |-> w + 1, started |-> <<Head(t)>>,
        item |-> [it EXCEPT ![Head(t)].phase = "tick"]]
  ELSE [tasks |-> t, workers |-> w, started |-> <<>>, item |-> it]

\* q.process() taking the task pushed last
QProcessLast(t, w, it) ==
  IF w < POOL_SIZE /\ t # <<>>
  THEN [tasks |-> SubSeq(t, 1, Len(t) - 1), workers |-> w + 1,
        started |-> <<t[Len(t)]>>,
        item |-> [it EXCEPT ![t[Len(t)]].phase = "tick"]]
  ELSE [tasks |-> t, workers |-> w, started |-> <<>>, item |-> it]

(* q.process(): start the task at the head of q.tasks when a worker is     *)
(* free; the worker function defers pushToBillit with process.nextTick     *)
(* (started: the task whose nextTick callback was scheduled).              *)
QProcess(t, w, it) ==
  IF w < POOL_SIZE /\ t # <<>>
  THEN [tasks |-> Tail(t), workers |-> w + 1, started |-> <<Head(t)>>,
        item |-> [it EXCEPT ![Head(t)].phase = "tick"]]
  ELSE [tasks |-> t, workers |-> w, started |-> <<>>, item |-> it]

(* The completion callback async.queue hands to the worker: one worker     *)
(* less, then q.process().                                                 *)
QNext(i, it) ==
  QProcess(tasks, workers - 1,
           [it EXCEPT ![i].phase = "done", ![i].callbacks = @ + 1])

\* store() skipping a bill whose uid is already queued or being published
StoreDeduplicating(data) ==
  /\ stores < MaxStores
  /\ stores' = stores + 1
  /\ LET r == toPopolo(data, today)
     IN  IF r.threw
         THEN /\ item' = [item EXCEPT ![stores + 1].phase = "storeRaised"]
              /\ UNCHANGED <<tasks, immediates>>
         ELSE IF \E j \in 1..stores :
                   item[j].uid = r.bill.uid
                     /\ item[j].phase \in {"queued", "tick", "get", "write"}
         THEN /\ item' = [item EXCEPT ![stores + 1].storeCallbacks = @ + 1]
              /\ UNCHANGED <<tasks, immediates>>
         ELSE /\ tasks' = Append(tasks, stores + 1)
              /\ immediates' = immediates + 1
              /\ item' = [item EXCEPT ![stores + 1].phase = "queued",
                                      ![stores + 1].uid = r.bill.uid,
                                      ![stores + 1].storeCallbacks = @ + 1]
  /\ UNCHANGED <<workers, ticks, options, classifierVars, importerVars>>

\* store(id, data, role, callback)
Store(data) ==
  /\ stores < MaxStores
  /\ stores' = stores + 1
  /\ LET r == toPopolo(data, today)
     IN  IF r.threw
         THEN /\ item' = [item EXCEPT ![stores + 1].phase = "storeRaised"]
              /\ UNCHANGED <<tasks, immediates>>
         ELSE /\ tasks' = Append(tasks, stores + 1)
              /\ immediates' = immediates + 1
              /\ item' = [item EXCEPT ![stores + 1].phase = "queued",
                                      ![stores + 1].uid = r.bill.uid,
                                      ![stores + 1].storeCallbacks = @ + 1]
  /\ UNCHANGED <<workers, ticks, options, classifierVars, importerVars>>

\* a q.process call scheduled by queue.push runs
Immediate ==
  /\ immediates > 0
  /\ immediates' = immediates - 1
  /\ LET q == QProcess(tasks, workers, item)
     IN  /\ tasks' = q.tasks /\ workers' = q.workers /\ item' = q.item
         /\ ticks' = ticks \o q.started
  /\ UNCHANGED <<stores, options, classifierVars, importerVars>>

(* The oldest pending nextTick callback of the worker runs (Node runs them *)
(* in the order they were scheduled): pushToBillit issues the GET.         *)
Tick(i) ==
  /\ ticks # <<>> /\ Head(ticks) = i
  /\ item[i].phase = "tick"
  /\ ticks' = Tail(ticks)
  /\ item' = [item EXCEPT
       ![i].phase = "get",
       ![i].requests = Append(@, [ method |-> "GET",
                                   uri |-> instance \o "/bills" \o "/" \o item[i].uid
                                           \o ".json?fields=uid" ])]
  /\ UNCHANGED <<tasks, workers, immediates, stores, options, classifierVars, importerVars>>

\* the existence check ends the publish: no response, or status 500
Abandoned(response) == response = NoResponse \/ response.statusCode = 500

\* the write with the update sent to the collection path
WriteRequestPutToCollection(url, uid, response) ==
  IF response.statusCode = 200
  THEN [method |-> "PUT", uri |-> url]
  ELSE [method |-> "POST", uri |-> url]

\* the write with every status below 500 taken for "found"
WriteRequestFoundBelow500(url, uid, response) ==
  IF response.statusCode < 500
  THEN [method |-> "PUT", uri |-> url \o "/" \o uid]
  ELSE [method |-> "POST", uri |-> url]

\* the write that follows the existence check: method and uri
WriteRequest(url, uid, response) ==
  IF response.statusCode = 200
  THEN [method |-> "PUT", uri |-> url \o "/" \o uid]
  ELSE [method |-> "POST", uri |-> url]

\* the callback of the existence check runs
GetResponse(i, response) ==
  /\ item[i].phase = "get"
  /\ LET seen == [item EXCEPT ![i].status = response]
     IN  IF Abandoned(response)
         THEN LET q == QNext(i, seen)
              IN  /\ tasks' = q.tasks /\ workers' = q.workers /\ item' = q.item
                  /\ ticks' = ticks \o q.started
         ELSE /\ item' = [seen EXCEPT
                   ![i].phase = "write",
                   ![i].requests =
                      Append(@, WriteRequest(instance \o "/bills", item[i].uid, response))]
              /\ UNCHANGED <<tasks, workers, ticks>>
  /\ UNCHANGED <<immediates, stores, options, classifierVars, importerVars>>

\* the write callback sending the write again when it was not answered 302
WriteResponseRetrying(i, response) ==
  /\ item[i].phase = "write"
  /\ LET seen == [item EXCEPT ![i].reply = response]
     IN  IF response = NoResponse
         THEN /\ item' = [seen EXCEPT ![i].phase = "raised"]
              /\ UNCHANGED <<tasks, workers, ticks>>
         ELSE IF response.statusCode # 302
         THEN /\ item' = [seen EXCEPT ![i].requests = Append(@, @[Len(@)])]
              /\ UNCHANGED <<tasks, workers, ticks>>
         ELSE LET q == QNext(i, seen)
              IN  /\ tasks' = q.tasks /\ workers' = q.workers /\ item' = q.item
                  /\ ticks' = ticks \o q.started
  /\ UNCHANGED <<immediates, stores, options, classifierVars, importerVars>>

\* the write callback raises: response.statusCode is read off no response
WriteRaises(response) == response = NoResponse

(* The callback of the write runs.  Without a response the else branch     *)
(* evaluates response.statusCode, a TypeError: callback() is not reached.  *)
WriteResponse(i, response) ==
  /\ item[i].phase = "write"
  /\ LET seen == [item EXCEPT ![i].reply = response]
     IN  IF WriteRaises(response)
         THEN /\ item' = [seen EXCEPT ![i].phase = "raised"]
              /\ UNCHANGED <<tasks, workers, ticks>>
         ELSE LET q == QNext(i, seen)
              IN  /\ tasks' = q.tasks /\ workers' = q.workers /\ item' = q.item
                  /\ ticks' = ticks \o q.started
  /\ UNCHANGED <<immediates, stores, options, classifierVars, importerVars>>

(* BillImporter (src/lib/bill/BillImporter.js): enqueueTask() hands out     *)
(* page numbers, execute() fetches and parses one page. The importer loop  *)
(* that calls them, initEnv and store belong to the Importer base class.   *)

\* Error objects, told apart by their message
EOF_ERR == "No more data available."
EmptyResponse == "Empty response, maybe querying error?"
InvalidFile == "Invalid file"
PageErrors == "Error: connect ETIMEDOUT"
ParseError == "Error: required element is empty"
StoreError == "Error: storer failed"

\* a task returned by enqueueTask(), and its null
Task(n) == [pageNumber |-> n]
NoTask == [null |-> TRUE]

NotQueued ==
  [ phase |-> "unused",    \* unused, queued, fetching, parsing, done, abandoned
    documents |-> 0,       \* documents.length
    pending |-> 0,         \* documents whose next() has not been called yet
    completed |-> 0,       \* `completed` of async.forEachLimit
    failed |-> FALSE,      \* forEachLimit replaced its callback by a no-op
    err |-> Undefined,     \* the argument of the last execute callback
    callbacks |-> 0 ]      \* times the callback of execute() was invoked

\* what initEnv hands to its callback: (errors, $), and what $ finds
FetchOutcomes ==
  [ errors : {Null, "connect ETIMEDOUT"},
    dom : BOOLEAN,                   \* $ is defined
    documents : 0..MaxDocuments,     \* $(".toc").length
    eof : BOOLEAN ]                  \* EOF_EXPR.test($("> div").html())

\* how one document ends: the waterfall's err, rawBill.file, store's result
DocumentOutcomes ==
  [ err : {Null, ParseError},
    file : {Undefined, "0001-D-2013"},
    stored : {Null, StoreError} ]

\* the importer as its constructor leaves it (no options.startPage)
ImporterCreated ==
  /\ pageCount = 0
  /\ lastError = Null
  /\ calls = <<>>
  /\ page = [n \in 1..MaxCalls |-> NotQueued]

\* some execute() has called back with EOF_ERR
EofReported ==
  \E n \in 1..MaxCalls : page[n].callbacks > 0 /\ page[n].err = EOF_ERR

enqueueTask ==
  /\ Len(calls) < MaxCalls
  /\ IF lastError = EOF_ERR
     THEN /\ calls' = Append(calls, [task |-> NoTask, afterEof |-> EofReported])
          /\ UNCHANGED <<pageCount, page>>
     ELSE /\ pageCount' = pageCount + 1
          /\ calls' = Append(calls, [task |-> Task(pageCount + 1), afterEof |-> EofReported])
          /\ page' = [page EXCEPT ![pageCount + 1] = [NotQueued EXCEPT !.phase = "queued"]]
  /\ UNCHANGED <<lastError, classifierVars, queueVars>>

\* execute(task, callback) up to the importer.initEnv call of processPage
execute(n) ==
  /\ page[n].phase = "queued"
  /\ page' = [page EXCEPT ![n].phase = "fetching"]
  /\ UNCHANGED <<pageCount, lastError, calls, classifierVars, queueVars>>

\* the callback execute() hands to processPage, leaving page n as p
ExecuteCallback(n, p, err) ==
  /\ lastError' = IF Falsy(lastError) THEN err ELSE lastError
  /\ page' = [page EXCEPT ![n] = [p EXCEPT !.err = err, !.callbacks = @ + 1]]

\* the callback processPage hands to importer.initEnv
processPage(n, fetched) ==
  /\ page[n].phase = "fetching"
  /\ IF ~fetched.dom
     THEN /\ page' = [page EXCEPT ![n].phase = "abandoned"]
          /\ UNCHANGED lastError
     ELSE IF ~Falsy(fetched.errors)
     THEN ExecuteCallback(n, [page[n] EXCEPT !.phase = "done"], PageErrors)
     ELSE IF fetched.documents = 0
     THEN ExecuteCallback(n, [page[n] EXCEPT !.phase = "done"],
                          IF fetched.eof THEN EOF_ERR ELSE EmptyResponse)
     ELSE /\ page' = [page EXCEPT ![n] = [@ EXCEPT !.phase = "parsing",
                                                     !.documents = fetched.documents,
                                                     !.pending = fetched.documents]]
          /\ UNCHANGED lastError
  /\ UNCHANGED <<pageCount, calls, classifierVars, queueVars>>

\* the argument next() gets for one document
NextArgument(outcome) ==
  IF Falsy(outcome.err) /\ ~Falsy(outcome.file) THEN outcome.stored
  ELSE IF ~Falsy(outcome.err) THEN outcome.err ELSE InvalidFile

(* One document of the page is through its waterfall and, when it parsed,  *)
(* its store: next() runs, and with it async.forEachLimit's bookkeeping.   *)
NextDocument(n, outcome) ==
  LET err == NextArgument(outcome)
      left == [page[n] EXCEPT !.pending = @ - 1,
                              !.phase = IF page[n].pending = 1 THEN "done" ELSE @]
  IN  /\ page[n].phase = "parsing"
      /\ page[n].pending > 0
      /\ IF ~Falsy(err)
         THEN IF page[n].failed
              THEN page' = [page EXCEPT ![n] = left] /\ UNCHANGED lastError
              ELSE ExecuteCallback(n, [left EXCEPT !.failed = TRUE], err)
         ELSE IF page[n].completed + 1 >= page[n].documents /\ ~page[n].failed
              THEN ExecuteCallback(n, [left EXCEPT !.completed = @ + 1], Undefined)
              ELSE /\ page' = [page EXCEPT ![n] = [left EXCEPT !.completed = @ + 1]]
                   /\ UNCHANGED lastError
      /\ UNCHANGED <<pageCount, calls, classifierVars, queueVars>>

-----------------------------------------------------------------------------

Init ==
  /\ options \in {NoPoolSize} \cup [poolSize : 1..MaxPoolSize]
  /\ tasks = <<>>
  /\ workers = 0
  /\ immediates = 0
  /\ ticks = <<>>
  /\ stores = 0
  /\ item = [i \in 1..MaxStores |-> Unused]
  /\ ogovBill = NotCalled
  /\ today = DateOf(2014, 6)
  /\ popolo = NotCalled
  /\ ImporterCreated

Next ==
  \/ \E data \in StoreData : Store(data)
  \/ Immediate
  \/ \E i \in 1..MaxStores : Tick(i)
  \/ \E i \in 1..MaxStores : \E response \in GetResponses : GetResponse(i, response)
  \/ \E i \in 1..MaxStores : \E response \in WriteResponses : WriteResponse(i, response)

Spec == Init /\ [][Next]_vars

(* Node runs every scheduled callback, and the claims about progress       *)
(* assume every request calls back.                                        *)
FairSpec ==
  /\ Spec
  /\ WF_vars(Immediate)
  /\ \A i \in 1..MaxStores :
       /\ WF_vars(Tick(i))
       /\ WF_vars(\E response \in GetResponses : GetResponse(i, response))
       /\ WF_vars(\E response \in WriteResponses : WriteResponse(i, response))

-----------------------------------------------------------------------------
(* The classifier on its own: one toPopolo call on a raw bill.             *)

Classify ==
  /\ popolo = NotCalled
  /\ popolo' = toPopolo(ogovBill, today)
  /\ UNCHANGED <<ogovBill, today, queueVars, importerVars>>

ClassifierInit ==
  /\ ogovBill \in RawBills
  /\ today \in Todays
  /\ popolo = NotCalled
  /\ options = NoPoolSize
  /\ tasks = <<>>
  /\ workers = 0
  /\ immediates = 0
  /\ ticks = <<>>
  /\ stores = 0
  /\ item = [i \in 1..MaxStores |-> Unused]
  /\ ImporterCreated

ClassifierNext == Classify

ClassifierSpec == ClassifierInit /\ [][ClassifierNext]_vars

-----------------------------------------------------------------------------
(* The bill importer on its own, driven by any importer loop.              *)

ImporterInit ==
  /\ ImporterCreated
  /\ ogovBill = NotCalled
  /\ today = DateOf(2014, 6)
  /\ popolo = NotCalled
  /\ options = NoPoolSize
  /\ tasks = <<>>
  /\ workers = 0
  /\ immediates = 0
  /\ ticks = <<>>
  /\ stores = 0
  /\ item = [i \in 1..MaxStores |-> Unused]

ImporterNext ==
  \/ enqueueTask
  \/ \E n \in 1..MaxCalls : execute(n)
  \/ \E n \in 1..MaxCalls : \E fetched \in FetchOutcomes : processPage(n, fetched)
  \/ \E n \in 1..MaxCalls : \E outcome \in DocumentOutcomes : NextDocument(n, outcome)

ImporterSpec == ImporterInit /\ [][ImporterNext]_vars

(* The fetch and the storers call back, and the importer loop executes     *)
(* every task it was given.                                                *)
FairImporterSpec ==
  /\ ImporterSpec
  /\ \A n \in 1..MaxCalls :
       /\ WF_vars(execute(n))
       /\ WF_vars(\E fetched \in FetchOutcomes : processPage(n, fetched))
       /\ WF_vars(\E outcome \in DocumentOutcomes : NextDocument(n, outcome))

-----------------------------------------------------------------------------
(* Properties of the publish queue (Spec, FairSpec).                       *)

Items == 1..MaxStores

\* the requests of a store() call that have the given method
Sent(i, method) == SelectSeq(item[i].requests, LAMBDA r : r.method = method)

\* the write requests (PUT or POST) of a store() call
Writes(i) == SelectSeq(item[i].requests, LAMBDA r : r.method # "GET")

\* the existence check of i was answered with a status code in the set
Answered(i, codes) ==
  "statusCode" \in DOMAIN item[i].status /\ item[i].status.statusCode \in codes

(* C1: every publish a worker started calls its completion callback        *)
(* exactly once whatever the two network calls yield, and raises no        *)
(* exception: once its last network call was answered the callback has     *)
(* been called once, and it is never called twice.                         *)
C1_PublishCallsBackOnce ==
  \A i \in Items :
    /\ item[i].callbacks <= 1
    /\ item[i].phase # "raised"
    /\ (item[i].status \in {NoResponse, Response(500)} \/ item[i].reply # Pending)
         => item[i].callbacks = 1

\* the publishes in flight: existence check issued, completion callback not called
InFlight == {i \in Items : item[i].phase \in {"get", "write", "raised"}}

\* the pool size: options.poolSize when given, 2 otherwise
PoolSizeGiven == IF "poolSize" \in DOMAIN options THEN options.poolSize ELSE 2

C4_NoWriteOnServerError ==
  \A i \in Items :
    (item[i].status = NoResponse \/ Answered(i, 500..599))
      => /\ Writes(i) = <<>>
         /\ item[i].phase = "done"
         /\ item[i].callbacks = 1

(* C5: when the existence check returns 200, exactly one PUT to            *)
(* {baseUrl}/bills/{uid} and no POST is issued for the item.               *)
C5_UpdateWhenFound ==
  \A i \in Items :
    Answered(i, {200})
      => Writes(i) = << [method |-> "PUT", uri |-> "http://billit/bills/" \o item[i].uid] >>

\* a found bill whose publish is over
C5_FoundAndDone == \E i \in Items : Answered(i, {200}) /\ item[i].phase = "done"

(* C6: when the existence check returns a not-found status (neither 200    *)
(* nor 5xx), exactly one POST to {baseUrl}/bills and no PUT is issued.     *)
C6_CreateWhenNotFound ==
  \A i \in Items :
    Answered(i, (100..499) \ {200})
      => Writes(i) = << [method |-> "POST", uri |-> "http://billit/bills"] >>

\* a bill that was not found and whose publish is over
C6_NotFoundAndDone == \E i \in Items : Answered(i, {404}) /\ item[i].phase = "done"

(* C7: every bill passed to store() eventually gets its existence check    *)
(* issued, when every network call calls back and scheduling is fair.      *)
C7_EveryBillAttempted ==
  \A i \in Items : (item[i].phase = "queued") ~> (Len(Sent(i, "GET")) = 1)

(* C8: no item is retried or re-queued: at most one existence check and    *)
(* at most one write are issued per store() call, also when the write is   *)
(* answered with a status other than 302.                                  *)
C8_NoRetry ==
  \A i \in Items : Len(Sent(i, "GET")) <= 1 /\ Len(Writes(i)) <= 1 /\ item[i].callbacks <= 1

\* a publish is over whose write was answered with another status than 302
C8_WriteFailedAndDone ==
  \E i \in Items :
    /\ item[i].phase = "done"
    /\ "statusCode" \in DOMAIN item[i].reply /\ item[i].reply.statusCode # 302
    /\ Len(Writes(i)) = 1

(* C9: every store() call calls its callback exactly once, before its      *)
(* existence check is issued, and never fails to its caller.               *)
C9_StoreCallsBack ==
  \A i \in Items :
    /\ i <= stores => item[i].storeCallbacks = 1 /\ item[i].phase # "storeRaised"
    /\ item[i].requests # <<>> => item[i].storeCallbacks = 1

\* store() call i queued its bill
Enqueued(i) == item[i].phase \notin {"unused", "storeRaised"}

(* C16: store() calls are not deduplicated: every bill that store()        *)
(* converted is queued, also when a bill with the same uid is queued or in *)
(* flight, and of two publishes of one uid each one whose existence check  *)
(* was answered not-found issues its own POST.                             *)
C16_NoDeduplication ==
  /\ \A i \in Items : (i <= stores /\ item[i].phase # "storeRaised") => Enqueued(i)
  /\ \A i, j \in Items :
       (i # j /\ Enqueued(i) /\ Enqueued(j) /\ item[i].uid = item[j].uid
          /\ Answered(i, {404}))
         => Len(Sent(i, "POST")) = 1

\* with a pool of two or more, two creates of one uid are in flight at once
C16_TwoCreatesInFlight ==
  /\ POOL_SIZE >= 2
  /\ \E i, j \in Items :
       /\ i # j /\ item[i].uid = item[j].uid
       /\ Answered(i, {404}) /\ Answered(j, {404})
       /\ item[i].phase = "write" /\ item[j].phase = "write"
       /\ Len(Sent(i, "POST")) = 1 /\ Len(Sent(j, "POST")) = 1

(* C17: admission into the pool is FIFO: of two bills passed to store() in *)
(* that order, the existence check of the second is never issued before    *)
(* the one of the first.                                                   *)
C17_FifoAdmission ==
  \A i, j \in Items :
    (i < j /\ Enqueued(i) /\ Len(Sent(j, "GET")) = 1) => Len(Sent(i, "GET")) = 1

\* the second bill is done while the first one is still being published
C17_SecondDoneFirst ==
  \E i, j \in Items :
    /\ i < j
    /\ item[j].phase = "done"
    /\ item[i].phase \in {"get", "write"}

-----------------------------------------------------------------------------
(* Properties of toPopolo (ClassifierSpec).                                *)

Called == popolo # NotCalled

(* C3: for every raw bill with a non-empty lawNumber the returned stage is *)
(* APPROVED, whatever its dictums, procedures, creation date and the       *)
(* current date.                                                           *)
C3_LawOverrideAbsolute ==
  (Called /\ ~Falsy(ogovBill.lawNumber))
    => (~popolo.threw => popolo.bill.stage = STAGE.APPROVED)

(* C10: toPopolo never throws on missing optional fields: a procedure      *)
(* without topic still yields its directive in the returned bill, and on a *)
(* source other than Senado its topic stays undefined.                     *)
C10_NeverThrows ==
  Called =>
    /\ ~popolo.threw
    /\ Len(popolo.bill.directives) = Len(ogovBill.procedures)
    /\ \A k \in 1..Len(ogovBill.procedures) :
         (ogovBill.procedures[k].topic = Undefined
            /\ ogovBill.procedures[k].source # "Senado")
           => popolo.bill.directives[k].step = Undefined

\* toPopolo was called and returned a bill
Returned == Called /\ ~popolo.threw

(* C11: the stage of the returned bill is exactly one of the eight         *)
(* canonical values; toPopolo computes it from the raw bill and the        *)
(* current date alone.                                                     *)
C11_StageCanonical ==
  Returned =>
    /\ popolo.bill.stage \in
         { STAGE.SUBMITTED, STAGE.CONSIDERING, STAGE.DICTUM_ORIGIN,
           STAGE.DICTUM_REVISORY, STAGE.HALF_SANCTION, STAGE.APPROVED,
           STAGE.REJECTED, STAGE.PARLIAMENTARY_STATUS_LOST }
    /\ Cardinality({STAGE[k] : k \in DOMAIN STAGE}) = 8

\* a bill with a law number and a directive was returned
C11_LawBillReturned ==
  Returned /\ ~Falsy(ogovBill.lawNumber) /\ ogovBill.procedures # <<>>

\* the year of `new Date()` as getYear gives it
CurrentYear == today.y - 1900

C13_MarchNotDecremented ==
  Returned =>
    popolo.creation_year =
      Num(ogovBill.creationTime.y - 1900
            - (IF ogovBill.creationTime.m \in {0, 1} THEN 1 ELSE 0))

\* the k-th procedure is a half sanction of the bill's own chamber, dated
\* the year after the bill's creation
HalfSanctionNextYear(k) ==
  LET procedure == ogovBill.procedures[k]
  IN  /\ procedure.source = ogovBill.source
      /\ ~NoMethods(procedure.topic)
      /\ IndexOf(procedure.topic, "CONSIDERACION") >= 0
      /\ procedure.result = "MEDIA SANCION"
      /\ "y" \in DOMAIN procedure.date
      /\ procedure.date.y = ogovBill.creationTime.y + 1

(* C14: a bill created in year Y, April or later, without lawNumber, whose *)
(* directive is a half sanction of its own chamber dated Y+1, lasts three  *)
(* years: its stage is HALF_SANCTION while the current date is in Y+2, or  *)
(* in Y+3 before April.                                                    *)
C14_HalfSanctionLastsThreeYears ==
  ( /\ Called
    /\ Falsy(ogovBill.lawNumber)
    /\ ogovBill.creationTime.m >= 3
    /\ Len(ogovBill.procedures) = 1
    /\ HalfSanctionNextYear(1)
    /\ \/ today.y = ogovBill.creationTime.y + 2
       \/ today.y = ogovBill.creationTime.y + 3 /\ today.m < 3 )
  => (~popolo.threw /\ popolo.bill.stage = STAGE.HALF_SANCTION)

(* C15: toPopolo leaves the raw bill as it was: every field, the date and  *)
(* topic of each dictum and procedure included, keeps its value.           *)
C15_InputUnchanged == Called => popolo.raw = ogovBill

\* the bill has no law number and the expiry rule did not fire
NoLawNoExpiry ==
  Returned /\ Falsy(ogovBill.lawNumber)
    /\ popolo.bill.stage # STAGE.PARLIAMENTARY_STATUS_LOST

(* The stage toPopolo infers from the given procedures alone: no dictums,  *)
(* no law number, and run on the bill's creation date (no expiry).         *)
StageFrom(procedures) ==
  toPopolo([ogovBill EXCEPT !.dictums = <<>>, !.lawNumber = Undefined,
                            !.procedures = procedures],
           ogovBill.creationTime).bill.stage

\* the stage mapped from the k-th directive; SUBMITTED when it maps to none
StageOfDirective(k) == StageFrom(<<ogovBill.procedures[k]>>)

\* the directives that set a stage
StageRelevant ==
  {k \in 1..Len(ogovBill.procedures) : StageOfDirective(k) # STAGE.SUBMITTED}

\* the stage the events before the directives left: dictums only
StageOfDictums ==
  toPopolo([ogovBill EXCEPT !.lawNumber = Undefined, !.procedures = <<>>],
           ogovBill.creationTime).bill.stage

(* C18: among the directives the last write wins: without lawNumber and    *)
(* expiry the returned stage is the one mapped from the last directive     *)
(* that sets a stage; directives that are ignored or not recognized leave  *)
(* the stage of the earlier events as it was.                              *)
C18_LastDirectiveWins ==
  NoLawNoExpiry =>
    IF StageRelevant = {}
    THEN popolo.bill.stage = StageOfDictums
    ELSE popolo.bill.stage =
           StageOfDirective(CHOOSE k \in StageRelevant : \A j \in StageRelevant : j <= k)

\* two directives of a bill map to different stages
C18_TwoStagesInSequence ==
  /\ NoLawNoExpiry
  /\ Len(ogovBill.procedures) = 2
  /\ StageRelevant = {1, 2}
  /\ StageOfDirective(1) # StageOfDirective(2)
  /\ popolo.bill.stage = StageOfDirective(2)

\* the k-th directive as toPopolo builds it
DirectiveOf(k) == billitDirective(ogovBill, ogovBill.procedures[k])

\* the step text names one of the three stage-relevant steps of the origin chamber
KeywordStep(step) ==
  Has(step, "CONSIDERACION") \/ Has(step, "ARTICULO 114") \/ Has(step, "ARTICULO 204")

(* C19: dictum pass: a bill with a dictum, no stage-relevant directive, no *)
(* lawNumber and no expiry is returned in DICTUM_ORIGIN when the chamber   *)
(* of its last dictum is the bill's source, in DICTUM_REVISORY otherwise.  *)
C19_LastDictumSetsStage ==
  ( /\ NoLawNoExpiry
    /\ ogovBill.dictums # <<>>
    /\ \A k \in 1..Len(ogovBill.procedures) : ~KeywordStep(DirectiveOf(k).step) )
  => popolo.bill.stage =
       IF ogovBill.dictums[Len(ogovBill.dictums)].source = ogovBill.source
       THEN STAGE.DICTUM_ORIGIN ELSE STAGE.DICTUM_REVISORY

\* the stage the origin chamber's table gives for a stage text
OriginStageTexts == {"MEDIA SANCION", "SANCIONADO", "APROBADO", "RECHAZADO", ""}

OriginStage(text) ==
  IF text = "MEDIA SANCION" THEN STAGE.HALF_SANCTION
  ELSE IF text \in {"SANCIONADO", "APROBADO"} THEN STAGE.APPROVED
  ELSE IF text = "RECHAZADO" THEN STAGE.REJECTED
  ELSE STAGE.CONSIDERING

(* C20: origin-chamber directives: when the last directive of a bill with  *)
(* no lawNumber and no expiry comes from the bill's own chamber and its    *)
(* step contains CONSIDERACION, ARTICULO 114 or ARTICULO 204, the returned *)
(* stage is the one its stage text maps to: MEDIA SANCION to HALF_SANCTION,*)
(* SANCIONADO or APROBADO to APPROVED, RECHAZADO to REJECTED and the empty *)
(* string to CONSIDERING.                                                  *)
C20_OriginDirectiveSetsStage ==
  ( /\ NoLawNoExpiry
    /\ ogovBill.procedures # <<>>
    /\ LET last == DirectiveOf(Len(ogovBill.procedures))
       IN  /\ last.source = ogovBill.source
           /\ KeywordStep(last.step)
           /\ last.stage \in OriginStageTexts )
  => popolo.bill.stage = OriginStage(DirectiveOf(Len(ogovBill.procedures)).stage)

\* the last directive of the bill
LastDirective == DirectiveOf(Len(ogovBill.procedures))

\* the stage toPopolo infers from the events before the last directive
StageBeforeLast ==
  toPopolo([ogovBill EXCEPT !.lawNumber = Undefined,
              !.procedures = SubSeq(ogovBill.procedures, 1, Len(ogovBill.procedures) - 1)],
           ogovBill.creationTime).bill.stage

\* the stage texts the revisory chamber's table maps
RevisoryStageTexts ==
  {"MEDIA SANCION", "SANCIONADO", "APROBADO", "RECHAZADO", "ARCHIVADO", Null}

RevisoryStage(text) ==
  IF text = "MEDIA SANCION" THEN STAGE.HALF_SANCTION
  ELSE IF text \in {"SANCIONADO", "APROBADO", "ARCHIVADO"} THEN STAGE.APPROVED
  ELSE IF text = "RECHAZADO" THEN STAGE.REJECTED
  ELSE STAGE.CONSIDERING

\* the last directive comes from the other chamber, no law number, no expiry
LastIsRevisory ==
  /\ NoLawNoExpiry
  /\ ogovBill.procedures # <<>>
  /\ LastDirective.source # ogovBill.source

(* C21: revisory-chamber directives: when the last directive of a bill     *)
(* with no lawNumber and no expiry comes from the other chamber, a step    *)
(* containing CONSIDERACION sets the stage its stage text maps to          *)
(* (ARCHIVADO to APPROVED and null to CONSIDERING besides MEDIA SANCION,   *)
(* SANCIONADO/APROBADO and RECHAZADO), and a step without CONSIDERACION    *)
(* leaves the stage of the earlier events unchanged.                       *)
C21_RevisoryDirectiveSetsStage ==
  LastIsRevisory =>
    /\ ( Has(LastDirective.step, "CONSIDERACION")
         /\ LastDirective.stage \in RevisoryStageTexts )
       => popolo.bill.stage = RevisoryStage(LastDirective.stage)
    /\ ~Has(LastDirective.step, "CONSIDERACION")
       => popolo.bill.stage = StageBeforeLast

\* an archived consideration in the revisory chamber is returned as approved
C21_ArchivedInRevisoryChamber ==
  /\ LastIsRevisory
  /\ Has(LastDirective.step, "CONSIDERACION")
  /\ LastDirective.stage = "ARCHIVADO"
  /\ popolo.bill.stage = STAGE.APPROVED

(* C22: the paperwork of a dictum that has no date carries the bill's      *)
(* creation date (the raw bill's creationTime) as its date, whether or not *)
(* the dictum's result contains ARTICULO.                                  *)
C22_DictumDateBackfilled ==
  Returned =>
    \A i \in 1..Len(ogovBill.dictums) :
      DateFalsy(ogovBill.dictums[i].date)
        => popolo.bill.paperworks[i].date = ogovBill.creationTime

\* the marker after which a topic carries a date
Marker == "COMUNICADO EL "

(* C23: the directive of a procedure that has no date carries the ten      *)
(* characters after "COMUNICADO EL " when the topic contains that marker,  *)
(* at position 0 too, and the bill's creation date when it does not.       *)
C23_ProcedureDateFromTopic ==
  Returned =>
    \A k \in 1..Len(ogovBill.procedures) :
      LET procedure == ogovBill.procedures[k]
      IN  ( DateFalsy(procedure.date) /\ ~NoMethods(procedure.topic) )
            => popolo.bill.directives[k].date =
                 IF Has(procedure.topic, Marker)
                 THEN StrDate(Substr(procedure.topic,
                                     IndexOf(procedure.topic, Marker) + Len(Marker), 10))
                 ELSE ogovBill.creationTime

-----------------------------------------------------------------------------
(* Claims about the bill importer.                                         *)

(* C24: pagination stops at end of data: an enqueueTask() call made after  *)
(* some execute() called back with EOF_ERR returns null, whatever other    *)
(* errors were reported; a call made before that returns a task whose      *)
(* pageNumber is one more than that of the task returned before it.        *)
C24_NoTaskAfterEof ==
  \A i \in 1..Len(calls) :
    IF calls[i].afterEof
    THEN calls[i].task = NoTask
    ELSE /\ calls[i].task # NoTask
         /\ i > 1 => /\ calls[i - 1].task # NoTask
                     /\ calls[i].task.pageNumber = calls[i - 1].task.pageNumber + 1

(* C25: every execute(task, callback) call eventually invokes callback,    *)
(* whatever the fetch and the documents of the page turn out to be, given  *)
(* that the fetch and the storers call back.                               *)
C25_ExecuteCallsBack ==
  \A n \in 1..MaxCalls : (page[n].phase = "fetching") ~> (page[n].callbacks > 0)

====
